---- MODULE Spec2Model ----
(***************************************************************************)
(* Model of functions/src/index.ts: the clear -> fetch -> write pipeline   *)
(* (fetchAndStoreSpaceNews) and its two triggers, fetchNewsHandler (HTTP)  *)
(* and scheduledApiFetch (timer), acting on one shared Firestore.          *)
(*                                                                         *)
(* Every `await` of the source is one step of a run, so that two runs can  *)
(* interleave exactly where the source can be suspended.                   *)
(***************************************************************************)
EXTENDS Integers, Sequences, FiniteSets, TLC

\* ---------------------------------------------------------------- bounds
\* Top-level collections besides spaceNews that the store may be seeded with.
MaxOtherColls == 1
\* Documents besides `latest` that a collection may be seeded with.
MaxOtherDocs == 1
\* Editions of the upstream data: each endpoint can serve that many
\* distinct JSON documents.
MaxPayload == 2

\* ------------------------------------------------------ program constants
\* firestore.collection("spaceNews")
spaceNews == 0
\* .doc("latest")
latest == 0
\* res.status(200)
StatusOk == 200
\* res.status(500)
StatusError == 500

\* The two exported triggers.
Procs == {"fetchNewsHandler", "scheduledApiFetch"}

\* The four fetchWithLogging calls of fetchSpaceNews, in source order.
Endpoints == <<"NASA APOD", "SpaceX Launch", "SpaceX History", "NASA EONET">>

Colls == spaceNews .. MaxOtherColls
DocIds == latest .. MaxOtherDocs
Paths == Colls \X DocIds

\* What an upstream may send as a body: 0 stands for a body that is not
\* JSON, v > 0 for the v-th JSON document that endpoint can serve.
Bodies == 0 .. MaxPayload
\* The bodies the upstreams may send next, given the JSON values f a run has
\* fetched so far: within one run the four upstreams serve one edition (the
\* source never inspects a payload, so this only bounds the inputs).
BodiesAfter(f) == IF f = <<>> THEN Bodies ELSE {0, f[1][2]}
\* response.json() of body v served by the i-th endpoint.
Json(i, v) == <<i, v>>
\* HTTP statuses an upstream may answer with; 0 stands for a transport
\* failure (fetch() itself rejects: DNS, reset, timeout).
Statuses == {0, 200, 204, 404, 500}

\* interface SpaceNews
SpaceNews == [nasa : {Json(1, v) : v \in 1 .. MaxPayload},
              spacex : {Json(2, v) : v \in 1 .. MaxPayload},
              spacexHistory : {Json(3, v) : v \in 1 .. MaxPayload},
              eonet : {Json(4, v) : v \in 1 .. MaxPayload}]

\* A document that was in the store before the process started.
SeedDoc == [nasa |-> Json(0, 0), spacex |-> Json(0, 0),
            spacexHistory |-> Json(0, 0), eonet |-> Json(0, 0)]

\* Promise<SpaceNews | null>: null is the empty sequence, a value <<v>>.
Null == <<>>
Some(v) == <<v>>

VARIABLES
    store,          \* Firestore: a function from the paths of existing docs
    pc,             \* per trigger: where its run is suspended
    collections,    \* clearFirestore: collections still to be cleared
    snapshot,       \* clearFirestore: doc ids read by collection.get()
    fetched,        \* fetchSpaceNews: the JSON values fetched so far
    news,           \* fetchAndStoreSpaceNews: const spaceNews
    failedStep,     \* step of this run that threw ("none" if none so far)
    outcome,        \* how fetchAndStoreSpaceNews completed
    response,       \* fetchNewsHandler: status sent by res.status(); 0 = none
    schedLog,       \* scheduledApiFetch: level of its closing log line
    storeBefore,    \* the store when this run was triggered (<<>> = empty)
    trail,          \* steps this run has attempted, in order, with result
    latestWriter,   \* the run that wrote the current spaceNews/latest
    deletedBy       \* per run: the run whose clear deleted its snapshot

vars == <<store, pc, collections, snapshot, fetched, news, failedStep,
          outcome, response, schedLog, storeBefore, trail, latestWriter,
          deletedBy>>

\* ------------------------------------------------------------- the store

\* Mutant: only the spaceNews collection is cleared.
ListOnlySpaceNews(s) == {p[1] : p \in DOMAIN s} \cap {spaceNews}

\* firestore.listCollections(): the collections that hold a document.
ListCollections(s) == {p[1] : p \in DOMAIN s}

\* collection.get(): the documents of collection c.
GetDocs(s, c) == {p[2] : p \in {q \in DOMAIN s : q[1] = c}}

\* Mutant: only the first document read is put in the batch.
BatchCommitFirstOnly(s, c, docs) ==
    [p \in DOMAIN s \ {<<c, d>> : d \in {e \in docs : \A x \in docs : e <= x}}
        |-> s[p]]

\* batch.delete(doc.ref) for each doc, then batch.commit(): all at once.
BatchCommit(s, c, docs) ==
    [p \in DOMAIN s \ {<<c, d>> : d \in docs} |-> s[p]]

\* Mutant: the snapshot is added under a fresh document id (add(v)).
SetAsNewDoc(s, v) ==
    [p \in DOMAIN s \cup {<<spaceNews, latest + 1>>} |->
        IF p = <<spaceNews, latest + 1>> THEN v ELSE s[p]]

\* firestore.collection("spaceNews").doc("latest").set(v): full overwrite.
SetLatest(s, v) ==
    [p \in DOMAIN s \cup {<<spaceNews, latest>>} |->
        IF p = <<spaceNews, latest>> THEN v ELSE s[p]]

\* All orderings of a finite set, as sequences.
RECURSIVE Orderings(_)
Orderings(S) ==
    IF S = {} THEN {<<>>}
    ELSE UNION {{<<x>> \o t : t \in Orderings(S \ {x})} : x \in S}

\* ------------------------------------------------------------- fetching

\* response.ok
ResponseOk(status) == status >= 200 /\ status <= 299

\* response.json() resolves
ParsesAsJson(body) == body > 0

\* fetchWithLogging throws: transport failure, !response.ok, or bad JSON.
FetchThrows(status, body) ==
    \/ status = 0
    \/ ~ResponseOk(status)
    \/ ~ParsesAsJson(body)

\* Mutant: the two SpaceX results are assigned to each other's field.
AssembleSwapped(f) ==
    [nasa |-> f[1], spacex |-> f[3], spacexHistory |-> f[2], eonet |-> f[4]]

\* The object literal returned by fetchSpaceNews.
Assemble(f) ==
    [nasa |-> f[1], spacex |-> f[2], spacexHistory |-> f[3], eonet |-> f[4]]

\* ------------------------------------------------------------ completion

\* Mutant: the catch of fetchAndStoreSpaceNews rethrows.
CatchRethrows == "threw"

\* fetchAndStoreSpaceNews: catch (error) { logger.error(...) }
CatchOutcome == "returned"

\* fetchNewsHandler: 200 when the awaited call returned, 500 when it threw.
HandlerStatus(o) == IF o = "returned" THEN StatusOk ELSE StatusError

\* scheduledApiFetch: logger.info when the call returned, logger.error if not.
SchedulerLog(o) == IF o = "returned" THEN "info" ELSE "error"

\* Mutant: the data is fetched before the store is cleared.
FirstStepFetch == "fetch"

\* Mutant: the snapshot is fetched and never stored.
StepAfterFetchSkipsWrite == "respond"

\* fetchAndStoreSpaceNews: the statement order inside its try block.
FirstStep == "list"
StepAfterClear == "fetch"
StepAfterFetch == "write"

Event(step, ok) == [step |-> step, ok |-> ok]

\* ------------------------------------------------------------------ Init

InitStores == UNION {[S -> {SeedDoc}] : S \in SUBSET Paths}

Init ==
    /\ store \in InitStores
    /\ pc = [r \in Procs |-> "idle"]
    /\ collections = [r \in Procs |-> <<>>]
    /\ snapshot = [r \in Procs |-> {}]
    /\ fetched = [r \in Procs |-> <<>>]
    /\ news = [r \in Procs |-> Null]
    /\ failedStep = [r \in Procs |-> "none"]
    /\ outcome = [r \in Procs |-> "pending"]
    /\ response = 0
    /\ schedLog = "none"
    /\ storeBefore = [r \in Procs |-> <<>>]
    /\ trail = [r \in Procs |-> <<>>]
    /\ latestWriter = "none"
    /\ deletedBy = [r \in Procs |-> "none"]

\* --------------------------------------------------------------- actions

\* The platform invokes trigger r: the body of onRequest / onSchedule starts
\* and calls fetchAndStoreSpaceNews, which calls clearFirestore.
Trigger(r) ==
    /\ pc[r] \in {"idle", "done"}
    /\ pc' = [pc EXCEPT ![r] = FirstStep]
    /\ failedStep' = [failedStep EXCEPT ![r] = "none"]
    /\ outcome' = [outcome EXCEPT ![r] = "pending"]
    /\ response' = IF r = "fetchNewsHandler" THEN 0 ELSE response
    /\ schedLog' = IF r = "scheduledApiFetch" THEN "none" ELSE schedLog
    /\ storeBefore' = [storeBefore EXCEPT ![r] = store]
    /\ deletedBy' = [deletedBy EXCEPT ![r] = "none"]
    \* the snapshot of r's previous run is no longer "this run's"
    /\ latestWriter' = IF latestWriter = r THEN "none" ELSE latestWriter
    /\ UNCHANGED <<store, collections, snapshot, fetched, news, trail>>

\* Mutant: a rejected store call is logged and tried again.
StoreThrowsRetries(r, step) ==
    /\ failedStep' = [failedStep EXCEPT ![r] = step]
    /\ trail' = [trail EXCEPT ![r] = Append(@, Event(step, FALSE))]
    /\ UNCHANGED <<outcome, pc>>

\* A store call of run r rejects inside the try block of
\* fetchAndStoreSpaceNews: control goes to its catch.
StoreThrows(r, step) ==
    /\ failedStep' = [failedStep EXCEPT ![r] = step]
    /\ outcome' = [outcome EXCEPT ![r] = CatchOutcome]
    /\ pc' = [pc EXCEPT ![r] = "respond"]
    /\ trail' = [trail EXCEPT ![r] = Append(@, Event(step, FALSE))]

\* clearFirestore: await firestore.listCollections()
List(r) ==
    /\ pc[r] = "list"
    /\ \/ /\ \E order \in Orderings(ListCollections(store)) :
                /\ collections' = [collections EXCEPT ![r] = order]
                /\ pc' = [pc EXCEPT ![r] =
                            IF order = <<>> THEN StepAfterClear ELSE "get"]
          /\ trail' = [trail EXCEPT ![r] = Append(@, Event("list", TRUE))]
          /\ UNCHANGED <<failedStep, outcome>>
       \/ /\ StoreThrows(r, "list")
          /\ UNCHANGED collections
    /\ UNCHANGED <<store, snapshot, fetched, news, response, schedLog,
                   storeBefore, latestWriter, deletedBy>>

\* clearFirestore: await collection.get()
Get(r) ==
    /\ pc[r] = "get"
    /\ \/ /\ snapshot' = [snapshot EXCEPT ![r] =
                                GetDocs(store, Head(collections[r]))]
          /\ pc' = [pc EXCEPT ![r] = "commit"]
          /\ trail' = [trail EXCEPT ![r] = Append(@, Event("get", TRUE))]
          /\ UNCHANGED <<failedStep, outcome>>
       \/ /\ StoreThrows(r, "get")
          /\ UNCHANGED snapshot
    /\ UNCHANGED <<store, collections, fetched, news, response, schedLog,
                   storeBefore, latestWriter, deletedBy>>

\* The batch of run r, committed now, deletes an existing spaceNews/latest.
DeletesLatest(r) ==
    /\ Head(collections[r]) = spaceNews
    /\ latest \in snapshot[r]
    /\ <<spaceNews, latest>> \in DOMAIN store

\* clearFirestore: await batch.commit(), then the next turn of the loop
Commit(r) ==
    /\ pc[r] = "commit"
    /\ \/ /\ store' = BatchCommit(store, Head(collections[r]), snapshot[r])
          /\ collections' = [collections EXCEPT ![r] = Tail(@)]
          /\ snapshot' = [snapshot EXCEPT ![r] = {}]
          /\ pc' = [pc EXCEPT ![r] =
                      IF Tail(collections[r]) = <<>>
                      THEN StepAfterClear ELSE "get"]
          /\ trail' = [trail EXCEPT ![r] = Append(@, Event("commit", TRUE))]
          /\ IF DeletesLatest(r)
             THEN /\ latestWriter' = "none"
                  /\ deletedBy' = [q \in Procs |->
                        IF q = latestWriter /\ q # r THEN r ELSE deletedBy[q]]
             ELSE UNCHANGED <<latestWriter, deletedBy>>
          /\ UNCHANGED <<failedStep, outcome>>
       \/ /\ StoreThrows(r, "commit")
          /\ UNCHANGED <<store, collections, snapshot, latestWriter,
                         deletedBy>>
    /\ UNCHANGED <<fetched, news, response, schedLog, storeBefore>>

\* Mutant: a failed fetch is logged and the next endpoint is fetched, the
\* failed one contributing an empty value.
FetchCaughtContinues(r, label) ==
    /\ fetched' = [fetched EXCEPT ![r] = Append(@, Json(0, 0))]
    /\ failedStep' = [failedStep EXCEPT ![r] = "fetch"]
    /\ trail' = [trail EXCEPT ![r] = Append(@, Event(label, FALSE))]
    /\ IF Len(fetched'[r]) = Len(Endpoints)
       THEN /\ news' = [news EXCEPT ![r] = Some(Assemble(fetched'[r]))]
            /\ pc' = [pc EXCEPT ![r] = StepAfterFetch]
       ELSE UNCHANGED <<news, pc>>
    /\ UNCHANGED outcome

\* fetchSpaceNews: catch (error) { ...; return null; } and then, back in
\* fetchAndStoreSpaceNews, if (spaceNews) is false: the write is skipped and
\* the function returns.
FetchCaught(r, label) ==
    /\ news' = [news EXCEPT ![r] = Null]
    /\ failedStep' = [failedStep EXCEPT ![r] = "fetch"]
    /\ outcome' = [outcome EXCEPT ![r] = "returned"]
    /\ pc' = [pc EXCEPT ![r] = "respond"]
    /\ trail' = [trail EXCEPT ![r] = Append(@, Event(label, FALSE))]
    /\ UNCHANGED fetched

\* fetchSpaceNews: fetchWithLogging returned jsonData; after the fourth,
\* the snapshot is assembled and returned to fetchAndStoreSpaceNews.
FetchReturned(r, label, json) ==
    /\ fetched' = [fetched EXCEPT ![r] = Append(@, json)]
    /\ trail' = [trail EXCEPT ![r] = Append(@, Event(label, TRUE))]
    /\ IF Len(fetched'[r]) = Len(Endpoints)
       THEN /\ news' = [news EXCEPT ![r] = Some(Assemble(fetched'[r]))]
            /\ pc' = [pc EXCEPT ![r] = StepAfterFetch]
       ELSE UNCHANGED <<news, pc>>
    /\ UNCHANGED <<failedStep, outcome>>

\* fetchSpaceNews: the next await fetchWithLogging(url, label).
Fetch(r) ==
    /\ pc[r] = "fetch"
    /\ LET i == Len(fetched[r]) + 1 IN
       \E status \in Statuses, body \in BodiesAfter(fetched[r]) :
          IF FetchThrows(status, body)
          THEN FetchCaught(r, Endpoints[i])
          ELSE FetchReturned(r, Endpoints[i], Json(i, body))
    /\ UNCHANGED <<store, collections, snapshot, response, schedLog,
                   storeBefore, latestWriter, deletedBy>>

\* fetchAndStoreSpaceNews: await ...doc("latest").set(spaceNews)
Write(r) ==
    /\ pc[r] = "write"
    /\ \/ /\ store' = SetLatest(store, news[r][1])
          /\ outcome' = [outcome EXCEPT ![r] = "returned"]
          /\ pc' = [pc EXCEPT ![r] = "respond"]
          /\ trail' = [trail EXCEPT ![r] = Append(@, Event("write", TRUE))]
          /\ latestWriter' = r
          /\ UNCHANGED failedStep
       \/ /\ StoreThrows(r, "write")
          /\ UNCHANGED <<store, latestWriter>>
    /\ UNCHANGED <<collections, snapshot, fetched, news, response, schedLog,
                   storeBefore, deletedBy>>

\* fetchAndStoreSpaceNews has settled: the trigger's own try/catch around
\* the awaited call reports, and the run's locals go out of scope.
Respond(r) ==
    /\ pc[r] = "respond"
    /\ pc' = [pc EXCEPT ![r] = "done"]
    /\ response' = IF r = "fetchNewsHandler"
                   THEN HandlerStatus(outcome[r]) ELSE response
    /\ schedLog' = IF r = "scheduledApiFetch"
                   THEN SchedulerLog(outcome[r]) ELSE schedLog
    /\ collections' = [collections EXCEPT ![r] = <<>>]
    /\ snapshot' = [snapshot EXCEPT ![r] = {}]
    /\ fetched' = [fetched EXCEPT ![r] = <<>>]
    /\ news' = [news EXCEPT ![r] = Null]
    /\ storeBefore' = [storeBefore EXCEPT ![r] = <<>>]
    /\ trail' = [trail EXCEPT ![r] = <<>>]
    /\ UNCHANGED <<store, failedStep, outcome, latestWriter, deletedBy>>

Step(r) ==
    \/ List(r)
    \/ Get(r)
    \/ Commit(r)
    \/ Fetch(r)
    \/ Write(r)
    \/ Respond(r)

Next == \E r \in Procs : Trigger(r) \/ Step(r)

\* Runs one after another, from any seeded store: a trigger fires only
\* while no other run is active.
NoRunActive == \A r \in Procs : pc[r] \in {"idle", "done"}
SeqNext == \E r \in Procs : (NoRunActive /\ Trigger(r)) \/ Step(r)
Spec == Init /\ [][SeqNext]_vars

\* Both triggers may be running at once (nothing in the source serialises
\* them), from a store in its operating condition: empty, or holding the
\* snapshot of an earlier run.
ConcInit == Init /\ DOMAIN store \subseteq {<<spaceNews, latest>>}
ConcSpec == ConcInit /\ [][Next]_vars

\* Every awaited call settles (resolves or rejects).
FairSpec == ConcSpec /\ \A r \in Procs : WF_vars(Step(r))

\* ================================================================ claims

Latest == <<spaceNews, latest>>

\* fetchAndStoreSpaceNews of run r has settled (its trigger has yet to report).
Settled(r) == pc[r] = "respond"

\* The events of trail t that are fetchWithLogging calls.
IsFetchEvent(e) == \E k \in 1 .. Len(Endpoints) : e.step = Endpoints[k]
FetchEvents(t) == SelectSeq(t, IsFetchEvent)
IsClearEvent(e) == e.step \in {"list", "get", "commit"}
ClearFailed(r) == failedStep[r] \in {"list", "get", "commit"}

\* ---------------------------------------------------------------- C1
\* C1: once fetchNewsHandler has responded, the status is 200 exactly when
\* every step of its run (clear, four fetches, write) succeeded, and 500
\* exactly when some step failed.
C1_StatusReflectsRun ==
    pc["fetchNewsHandler"] = "done" =>
        /\ failedStep["fetchNewsHandler"] = "none" => response = StatusOk
        /\ failedStep["fetchNewsHandler"] # "none" => response = StatusError

\* ---------------------------------------------------------------- C10
\* C10: fetchAndStoreSpaceNews never throws to its caller: whichever step
\* fails, it returns, so fetchNewsHandler answers 200 and scheduledApiFetch
\* logs its completion line whether or not a snapshot was stored.
C10_NeverPropagates ==
    /\ \A r \in Procs :
          pc[r] \in {"respond", "done"} => outcome[r] = "returned"
    /\ pc["fetchNewsHandler"] = "done" => response = StatusOk
    /\ pc["scheduledApiFetch"] = "done" => schedLog = "info"

\* A run whose write was rejected has been answered with 200.
C10_Witness ==
    /\ pc["fetchNewsHandler"] = "done"
    /\ failedStep["fetchNewsHandler"] = "write"
    /\ response = StatusOk
    /\ Latest \notin DOMAIN store

\* ---------------------------------------------------------------- C3
\* C3: when the k-th fetch of a run fails, fetchSpaceNews yields null, the
\* calls made are exactly the first k endpoints in order, the first k-1
\* succeeded, and nothing is fetched afterwards.
C3_FirstFailureAborts ==
    \A r \in Procs :
        LET f == FetchEvents(trail[r]) IN
        \A k \in 1 .. Len(f) :
            ~f[k].ok =>
                /\ Len(f) = k
                /\ \A i \in 1 .. k : f[i].step = Endpoints[i]
                /\ \A i \in 1 .. k - 1 : f[i].ok
                /\ Settled(r)
                /\ news[r] = Null
                /\ Len(fetched[r]) = k - 1

\* The third endpoint (SpaceX History) failed after two successes.
C3_Witness ==
    \E r \in Procs :
        /\ Settled(r)
        /\ failedStep[r] = "fetch"
        /\ Len(FetchEvents(trail[r])) = 3
        /\ ~FetchEvents(trail[r])[3].ok

\* ---------------------------------------------------------------- C2
\* C2: from a store that holds at most one snapshot, the store always holds
\* no document at all or exactly the one document spaceNews/latest.
C2_AtMostOneSnapshot ==
    /\ DOMAIN store \subseteq {Latest}
    /\ Cardinality(DOMAIN store) <= 1

\* A run replaced the snapshot it found by its own.
C2_Witness ==
    \E r \in Procs :
        /\ Settled(r)
        /\ failedStep[r] = "none"
        /\ DOMAIN storeBefore[r] = {Latest}
        /\ DOMAIN store = {Latest}
        /\ store[Latest] # storeBefore[r][Latest]

\* ---------------------------------------------------------------- C4
\* clearFirestore of run r has just completed: its last step was the
\* listing of an empty store or the commit for the last listed collection.
JustCleared(r) ==
    /\ trail[r] # <<>>
    /\ trail[r][Len(trail[r])].ok
    /\ trail[r][Len(trail[r])].step \in {"list", "commit"}
    /\ collections[r] = <<>>

\* C4: when clearFirestore has completed and no other run acted meanwhile,
\* the store holds no document in any collection.
C4_ClearEmptiesStore ==
    \A r \in Procs : JustCleared(r) => DOMAIN store = {}

\* The store cleared held several documents in each of several collections.
C4_Witness ==
    \E r \in Procs :
        /\ JustCleared(r)
        /\ Cardinality(ListCollections(storeBefore[r])) >= 2
        /\ \A c \in ListCollections(storeBefore[r]) :
              Cardinality(GetDocs(storeBefore[r], c)) >= 2

\* ---------------------------------------------------------------- C5
\* C5: after a run in which every step succeeded, with no other run acting
\* meanwhile, spaceNews/latest reads back exactly the snapshot S the run
\* passed to set(), S is made of the four fetched values, each in its
\* field, and it is the only document of the store.
C5_RoundTrip ==
    \A r \in Procs :
        (Settled(r) /\ failedStep[r] = "none") =>
            /\ news[r] # Null
            /\ news[r][1] \in SpaceNews
            /\ news[r][1].nasa = fetched[r][1]
            /\ news[r][1].spacex = fetched[r][2]
            /\ news[r][1].spacexHistory = fetched[r][3]
            /\ news[r][1].eonet = fetched[r][4]
            /\ DOMAIN store = {Latest}
            /\ store[Latest] = news[r][1]

\* The run succeeded from a store that held other documents besides an
\* older spaceNews/latest.
C5_Witness ==
    \E r \in Procs :
        /\ Settled(r)
        /\ failedStep[r] = "none"
        /\ Latest \in DOMAIN storeBefore[r]
        /\ Cardinality(DOMAIN storeBefore[r]) >= 3
        /\ store[Latest] = news[r][1]

\* ---------------------------------------------------------------- C6
\* C6: in the trail of a run every clear step precedes every fetch and
\* every fetch precedes the write; a fetch happens only after a clear that
\* began with the listing and left no listed collection uncleared; the
\* write happens only after the four endpoints were fetched, in order.
C6_ClearFetchWriteOrder ==
    \A r \in Procs :
        LET t == trail[r]
            f == FetchEvents(t)
            fetching == f # <<>> \/ pc[r] = "fetch"
            writing == pc[r] = "write" \/ \E i \in 1 .. Len(t) : t[i].step = "write"
        IN
        /\ \A i, j \in 1 .. Len(t) :
              i < j =>
                /\ ~(IsClearEvent(t[j]) /\ ~IsClearEvent(t[i]))
                /\ ~(IsFetchEvent(t[j]) /\ t[i].step = "write")
        /\ (fetching \/ writing) =>
              /\ t # <<>>
              /\ t[1] = Event("list", TRUE)
              /\ \A i \in 1 .. Len(t) : IsClearEvent(t[i]) => t[i].ok
              /\ collections[r] = <<>>
              /\ snapshot[r] = {}
        /\ writing =>
              /\ Len(f) = Len(Endpoints)
              /\ \A k \in 1 .. Len(f) : f[k] = Event(Endpoints[k], TRUE)
              /\ news[r] # Null

\* A run that cleared a collection, fetched all four and wrote.
C6_Witness ==
    \E r \in Procs :
        /\ Settled(r)
        /\ Len(trail[r]) = 8
        /\ trail[r][3] = Event("commit", TRUE)
        /\ trail[r][8] = Event("write", TRUE)

\* ---------------------------------------------------------------- C7
\* Store s without the documents of the collections in C.
Without(s, C) == [p \in {q \in DOMAIN s : q[1] \notin C} |-> s[p]]

\* The batch commits of run r that succeeded so far.
Committed(r) ==
    Len(SelectSeq(trail[r], LAMBDA e : e = Event("commit", TRUE)))

\* C7 as stated: after a failed run the store is empty if the clear had
\* succeeded, and exactly as before the run if the clear itself failed.
C7_EmptyOrUnchanged ==
    \A r \in Procs :
        (Settled(r) /\ failedStep[r] # "none") =>
            IF ClearFailed(r)
            THEN store = storeBefore[r]
            ELSE DOMAIN store = {}

\* C7 as amended: after a failed run the store is empty if the clear had
\* succeeded; if the clear itself failed, the store is its contents before
\* the run less the whole collections whose batch delete had already been
\* committed (as many as commits succeeded), so it is unchanged only when
\* the failure came before the first successful commit.
C7_EmptyOrPartlyCleared ==
    \A r \in Procs :
        (Settled(r) /\ failedStep[r] # "none") =>
            IF ClearFailed(r)
            THEN /\ \E C \in SUBSET ListCollections(storeBefore[r]) :
                        /\ Cardinality(C) = Committed(r)
                        /\ store = Without(storeBefore[r], C)
                 /\ Committed(r) = 0 => store = storeBefore[r]
                 /\ failedStep[r] = "list" => Committed(r) = 0
            ELSE DOMAIN store = {}

\* The commit for the second collection was rejected after the first
\* collection had been deleted.
C7_Witness ==
    \E r \in Procs :
        /\ Settled(r)
        /\ failedStep[r] = "commit"
        /\ Committed(r) = 1
        /\ DOMAIN store # {}
        /\ store # storeBefore[r]

\* ---------------------------------------------------------------- C8
\* Both triggers have run to completion with every step successful.
BothSucceeded ==
    \A r \in Procs : pc[r] \in {"respond", "done"} /\ failedStep[r] = "none"

\* C8 as stated, in the form a run can refute: when the clear of one run
\* has deleted the snapshot written by the other and both runs completed
\* every step successfully, the store ends with no spaceNews/latest.
C8_BothSucceedStoreEmpty ==
    (BothSucceeded /\ \E r \in Procs : deletedBy[r] # "none") =>
        Latest \notin DOMAIN store

\* C8 as amended: the clear of one run can delete the snapshot written by
\* the other (the witness), leaving the store without snapshot after a
\* fully successful run for as long as the deleting run has not written;
\* but whenever both runs have completed every step successfully the store
\* holds spaceNews/latest, written by one of the two.
C8_BothSucceedKeepsSnapshot ==
    BothSucceeded =>
        /\ Latest \in DOMAIN store
        /\ latestWriter \in Procs
        /\ store[Latest] \in SpaceNews

\* Run r completed every step successfully and the clear of the other run
\* then deleted the snapshot r wrote: the store holds no snapshot.
C8_Witness ==
    \E r \in Procs :
        /\ pc[r] \in {"respond", "done"}
        /\ failedStep[r] = "none"
        /\ deletedBy[r] \in Procs \ {r}
        /\ Latest \notin DOMAIN store

\* ---------------------------------------------------------------- C9
\* The run states of section 4.4 in terms of pc: Clearing is list/get/commit,
\* Fetching is fetch, Writing is write; a settled run is Done or Failed.
Transitions ==
    {<<"idle", "list">>, <<"done", "list">>,
     <<"list", "get">>, <<"list", "fetch">>, <<"list", "respond">>,
     <<"get", "commit">>, <<"get", "respond">>,
     <<"commit", "get">>, <<"commit", "fetch">>, <<"commit", "respond">>,
     <<"fetch", "fetch">>, <<"fetch", "write">>, <<"fetch", "respond">>,
     <<"write", "respond">>, <<"respond", "done">>}

\* A failed step is the last step of its run, which has settled.
FailureIsFinal(r) ==
    /\ \A i \in 1 .. Len(trail[r]) : ~trail[r][i].ok => i = Len(trail[r])
    /\ (\E i \in 1 .. Len(trail[r]) : ~trail[r][i].ok) =>
            (Settled(r) /\ failedStep[r] # "none")
    /\ failedStep[r] # "none" => pc[r] \in {"respond", "done"}

\* No endpoint is fetched twice in a run.
NoRefetch(r) ==
    LET f == FetchEvents(trail[r]) IN
    \A i, j \in 1 .. Len(f) : f[i].step = f[j].step => i = j

\* C9: a run moves only along Idle -> Clearing -> Fetching -> Writing ->
\* Done, a failed step is the last step the run attempts (no further
\* delete, fetch or write, no retry, each endpoint fetched at most once),
\* a failed run changes the store no more, and every run that has started
\* ends, Done or Failed.
C9_RunStateMachine ==
    /\ [](\A r \in Procs : FailureIsFinal(r) /\ NoRefetch(r))
    /\ [][\A r \in Procs :
            /\ pc'[r] # pc[r] => <<pc[r], pc'[r]>> \in Transitions
            /\ (failedStep[r] = "none" /\ failedStep'[r] # "none") =>
                    (pc'[r] = "respond" /\ store' = store)
            /\ (failedStep[r] # "none" /\ pc[r] = "respond") =>
                    (pc'[r] \in {"respond", "done"}
                     /\ Len(trail'[r]) <= Len(trail[r]))]_vars
    /\ \A r \in Procs : (pc[r] \notin {"idle", "done"}) ~> (pc[r] = "done")

\* A run that failed at its second fetch has ended.
C9_Witness ==
    \E r \in Procs :
        /\ pc[r] = "respond"
        /\ failedStep[r] = "fetch"
        /\ Len(trail[r]) = 5
        /\ ~trail[r][5].ok

====
